---- MODULE Spec2Model ----
(***************************************************************************)
(* A model of the trading monitor: the moving-average indicators           *)
(* (src/indicators.py), the backtest engine (src/backtest.py), the live    *)
(* monitoring loop (src/main.py) and the delta compressor                  *)
(* (src/compressor.py).                                                    *)
(*                                                                         *)
(* Numbers.  The program computes with floating-point numbers (numpy's,    *)
(* as the prices come out of a pandas table); the model computes with      *)
(* exact rationals <<n, d>> in lowest terms (d > 0), <<1, 0>> and          *)
(* <<-1, 0>> stand for the two infinities and <<0, 0>> for NaN, with the   *)
(* floating-point rules for them (x/0 is an infinity or NaN, a comparison  *)
(* with NaN is false).  Zero has no sign.  Prices are the integers         *)
(* 1..MaxPrice, and 0..MaxPrice where market data with prices of zero is   *)
(* considered (SpecDegenerate).  The compressor's differences and sums    *)
(* are rounded as floating-point operations are (SpecCompress), and so is  *)
(* the accounting of a backtest under SpecFloat.                           *)
(*                                                                         *)
(* Python's None is "None" for a signal or a position, NoneSeries or      *)
(* NonePrices for a series.  Indices are 1-based here and 0-based in the   *)
(* source.                                                                 *)
(***************************************************************************)
EXTENDS Integers, Sequences, FiniteSets, TLC

(* ------------------------------ bounds -------------------------------- *)

\* prices are drawn from 1..MaxPrice
MaxPrice == 3

\* the longest price series a fetch delivers
MaxLen == 6

\* the largest moving-average window a configuration sets
MaxWindow == 3

\* the longest price series a fetch of the live loop delivers
MaxLiveLen == 4

\* the number of cycles of the live loop that are followed
MaxCycles == 3

\* the number of calls of run_backtest on one engine that are followed
MaxRuns == 2

(* ----------------------------- rationals ------------------------------ *)

Abs(x) == IF x < 0 THEN -x ELSE x

RECURSIVE GCD(_, _)
GCD(a, b) == IF b = 0 THEN a ELSE GCD(b, a % b)

Sign(x) == IF x < 0 THEN -1 ELSE IF x > 0 THEN 1 ELSE 0

\* the rational n/d in lowest terms with a positive denominator; with
\* d = 0 an infinity of the sign of n, or NaN when n = 0
Q(n, d) ==
    IF d = 0 THEN <<Sign(n), 0>>
    ELSE LET s == IF d < 0 THEN -1 ELSE 1
             g == GCD(Abs(n), Abs(d))
         IN  <<(s * n) \div g, (s * d) \div g>>

NaN == <<0, 0>>
Inf == <<1, 0>>
Zero == <<0, 1>>
Hundred == <<100, 1>>

QInt(k) == <<k, 1>>
QNeg(a) == <<-a[1], a[2]>>
QAdd(a, b) ==
    IF a[2] = 0 /\ b[2] = 0
    THEN (IF a = b THEN a ELSE NaN)
    ELSE Q(a[1] * b[2] + b[1] * a[2], a[2] * b[2])
QSub(a, b) == QAdd(a, QNeg(b))
QMul(a, b) == Q(a[1] * b[1], a[2] * b[2])
QDiv(a, b) ==
    LET s == IF b[1] < 0 THEN -1 ELSE 1
    IN  Q(s * a[1] * b[2], s * a[2] * b[1])
QLt(a, b) ==
    IF a = NaN \/ b = NaN THEN FALSE
    ELSE IF a[2] = 0 /\ b[2] = 0 THEN a[1] < b[1]
    ELSE a[1] * b[2] < b[1] * a[2]
QLe(a, b) ==
    IF a = NaN \/ b = NaN THEN FALSE
    ELSE IF a[2] = 0 /\ b[2] = 0 THEN a[1] <= b[1]
    ELSE a[1] * b[2] <= b[1] * a[2]
QGt(a, b) == QLt(b, a)
QGe(a, b) == QLe(b, a)

\* pd.isna
isna(x) == x = NaN

(* ------------------------- src/indicators.py -------------------------- *)

\* Python's None where a moving-average series is expected
NoneSeries == << <<0, -1>> >>

\* Python's None where a price series is expected
NonePrices == <<-1>>

RECURSIVE SumRange(_, _, _)
\* prices[lo] + ... + prices[hi]
SumRange(prices, lo, hi) ==
    IF lo > hi THEN 0 ELSE prices[hi] + SumRange(prices, lo, hi - 1)

\* mutant: a shorter window is averaged until a full one exists
rolling_mean_partial(prices, window) ==
    [k \in 1..Len(prices) |->
        IF k < window THEN Q(SumRange(prices, 1, k), k)
        ELSE Q(SumRange(prices, k - window + 1, k), window)]

\* mutant: the first full window is still reported as undefined
rolling_mean_late(prices, window) ==
    [k \in 1..Len(prices) |->
        IF k <= window THEN NaN
        ELSE Q(SumRange(prices, k - window + 1, k), window)]

\* price_series.rolling(window=window).mean(): NaN until a full window exists
rolling_mean(prices, window) ==
    [k \in 1..Len(prices) |->
        IF k < window THEN NaN
        ELSE Q(SumRange(prices, k - window + 1, k), window)]

\* mutant: the length of the series is not looked at
calculate_moving_average_unchecked(price_data, window) ==
    IF price_data = NonePrices
    THEN NoneSeries
    ELSE rolling_mean(price_data, window)

calculate_moving_average(price_data, window) ==
    IF price_data = NonePrices \/ Len(price_data) < window
    THEN NoneSeries
    ELSE rolling_mean(price_data, window)

\* mutant: the averages must differ at the earlier point as well
crossover_strict(short_previous, long_previous, short_current, long_current) ==
    IF isna(short_current) \/ isna(long_current) THEN "None"
    ELSE IF isna(short_previous) \/ isna(long_previous) THEN "None"
    ELSE IF QLt(short_previous, long_previous) /\ QGt(short_current, long_current)
         THEN "BUY"
    ELSE IF QGt(short_previous, long_previous) /\ QLt(short_current, long_current)
         THEN "SELL"
    ELSE "None"

\* mutant: the current short average is compared with the earlier long one
buy_condition_previous(short_previous, long_previous, short_current, long_current) ==
    QLe(short_previous, long_previous) /\ QGt(short_current, long_previous)

\* mutant: the averages need not differ at the current point
buy_condition_weak(short_previous, long_previous, short_current, long_current) ==
    QLe(short_previous, long_previous) /\ QGe(short_current, long_current)

\* the test of the BUY branch
buy_condition(short_previous, long_previous, short_current, long_current) ==
    QLe(short_previous, long_previous) /\ QGt(short_current, long_current)

\* the test of the SELL branch
sell_condition(short_previous, long_previous, short_current, long_current) ==
    QGe(short_previous, long_previous) /\ QLt(short_current, long_current)

\* mutant: the side of the current averages alone decides
crossover_level(short_previous, long_previous, short_current, long_current) ==
    IF isna(short_current) \/ isna(long_current) THEN "None"
    ELSE IF isna(short_previous) \/ isna(long_previous) THEN "None"
    ELSE IF QGt(short_current, long_current) THEN "BUY"
    ELSE IF QLt(short_current, long_current) THEN "SELL"
    ELSE "None"

\* the classification of the four averages, after the NaN checks
crossover(short_previous, long_previous, short_current, long_current) ==
    IF isna(short_current) \/ isna(long_current) THEN "None"
    ELSE IF isna(short_previous) \/ isna(long_previous) THEN "None"
    ELSE IF buy_condition(short_previous, long_previous, short_current, long_current)
         THEN "BUY"
    ELSE IF sell_condition(short_previous, long_previous, short_current, long_current)
         THEN "SELL"
    ELSE "None"

detect_ma_crossover(price_data, short_window, long_window) ==
    IF price_data = NonePrices \/ Len(price_data) < long_window THEN "None"
    ELSE LET short_ma == calculate_moving_average(price_data, short_window)
             long_ma == calculate_moving_average(price_data, long_window)
         IN  IF short_ma = NoneSeries \/ long_ma = NoneSeries THEN "None"
             ELSE IF Len(short_ma) < 2 \/ Len(long_ma) < 2 THEN "None"
             ELSE crossover(short_ma[Len(short_ma) - 1], long_ma[Len(long_ma) - 1],
                            short_ma[Len(short_ma)], long_ma[Len(long_ma)])

\* Python's None where get_latest_ma_values returns no dictionary
NoValues == [none |-> TRUE]

\* round(x, 2): the nearest multiple of 1/100, a tie going to the even one
round2(x) ==
    LET q == (x[1] * 100) \div x[2]
        r == (x[1] * 100) - q * x[2]
        up == 2 * r > x[2] \/ (2 * r = x[2] /\ q % 2 = 1)
    IN  Q(q + (IF up THEN 1 ELSE 0), 100)

get_latest_ma_values(price_data, short_window, long_window) ==
    IF price_data = NonePrices \/ Len(price_data) < long_window THEN NoValues
    ELSE LET short_ma == calculate_moving_average(price_data, short_window)
             long_ma == calculate_moving_average(price_data, long_window)
         IN  IF short_ma = NoneSeries \/ long_ma = NoneSeries THEN NoValues
             ELSE IF isna(short_ma[Len(short_ma)]) \/ isna(long_ma[Len(long_ma)])
                  THEN NoValues
             ELSE [short_ma |-> round2(short_ma[Len(short_ma)]),
                   long_ma |-> round2(long_ma[Len(long_ma)]),
                   current_price |-> round2(QInt(price_data[Len(price_data)]))]

(* ------------------------- src/compressor.py -------------------------- *)

\* The differences the compressor stores and the sums it rebuilds are
\* floating-point operations, each rounded to the nearest representable
\* number (ties to the even mantissa).  They are modelled at that rounding
\* with a mantissa of MANTISSA_BITS bits in place of the 53 bits of a
\* double; the exponent is unbounded, as no operation of the compressor
\* on prices comes near a double's exponent limits.

\* the bits of a mantissa (53 in the program's doubles)
MANTISSA_BITS == 3

RECURSIVE Pow2(_)
Pow2(k) == IF k = 0 THEN 1 ELSE 2 * Pow2(k - 1)

\* 2^e as a rational
QPow2(e) == IF e >= 0 THEN <<Pow2(e), 1>> ELSE <<1, Pow2(-e)>>

RECURSIVE exponent_from(_, _)
\* the e with 2^(e + MANTISSA_BITS - 1) <= a < 2^(e + MANTISSA_BITS), a > 0
exponent_from(a, e) ==
    IF QLt(a, QPow2(e + MANTISSA_BITS - 1)) THEN exponent_from(a, e - 1)
    ELSE IF QGe(a, QPow2(e + MANTISSA_BITS)) THEN exponent_from(a, e + 1)
    ELSE e

\* the integer nearest to the rational s >= 0, a tie going to the even one
round_half_even(s) ==
    LET q == s[1] \div s[2]
        r == <<s[1] - q * s[2], s[2]>>
    IN  IF QGt(r, <<1, 2>>) \/ (r = <<1, 2>> /\ q % 2 = 1) THEN q + 1 ELSE q

\* the floating-point number nearest to the rational x
fl(x) ==
    IF x[2] = 0 \/ x[1] = 0 THEN x
    ELSE LET a == <<Abs(x[1]), x[2]>>
             e == exponent_from(a, 0)
             m == round_half_even(QDiv(a, QPow2(e)))
         IN  QMul(QInt(Sign(x[1]) * m), QPow2(e))

\* a - b and a + b of two floating-point numbers
float_sub(a, b) == fl(QSub(a, b))
float_add(a, b) == fl(QAdd(a, b))

\* a * b and a / b of two floating-point numbers
float_mul(a, b) == fl(QMul(a, b))
float_div(a, b) == fl(QDiv(a, b))

\* Python's None where a compressed record is expected
NoneCompressed == [none |-> TRUE]

\* compress_market_data(price_data); None is NoneSeries
compress_market_data(price_data) ==
    IF price_data = NoneSeries \/ Len(price_data) = 0
    THEN NoneCompressed
    ELSE [base_price |-> price_data[1],
          deltas |-> [k \in 1..(Len(price_data) - 1) |->
                         float_sub(price_data[k + 1], price_data[k])],
          original_length |-> Len(price_data)]

RECURSIVE rebuild(_, _, _)
\* the loop of decompress_market_data: prices so far, current price, index
rebuild(deltas, prices, k) ==
    IF k > Len(deltas) THEN prices
    ELSE LET current_price == float_add(prices[Len(prices)], deltas[k])
         IN  rebuild(deltas, Append(prices, current_price), k + 1)

\* decompress_market_data(compressed_data)
decompress_market_data(data) ==
    IF data = NoneCompressed THEN NoneSeries
    ELSE IF "base_price" \notin DOMAIN data \/ "deltas" \notin DOMAIN data
         THEN NoneSeries
    ELSE rebuild(data.deltas, <<data.base_price>>, 1)

(* ------------------------------ inputs -------------------------------- *)

RECURSIVE SeqsOfLen(_, _)
SeqsOfLen(S, n) ==
    IF n = 0 THEN {<<>>}
    ELSE {Append(s, x) : s \in SeqsOfLen(S, n - 1), x \in S}

\* the price series a fetch can deliver
PriceSeries == UNION {SeqsOfLen(1..MaxPrice, n) : n \in 1..MaxLen}

\* the window settings validate_config accepts
Windows == {w \in (1..MaxWindow) \X (1..MaxWindow) : w[1] < w[2]}

\* the window settings a configuration file can hold
ConfigWindows == (0..MaxWindow) \X (0..MaxWindow)

\* a fresh engine's starting capital (the constructor's argument)
DEFAULT_CAPITAL == 10000
Capitals == {DEFAULT_CAPITAL, 1}

\* the largest binary exponent of a price handed to the compressor
MaxFloatExp == 2

\* the longest price list handed to the compressor
MaxCompressLen == 3

\* the floating-point prices in [1, 2^(MaxFloatExp + 1))
FloatPrices ==
    {QMul(QInt(m), QPow2(e - (MANTISSA_BITS - 1))) :
        m \in Pow2(MANTISSA_BITS - 1)..(Pow2(MANTISSA_BITS) - 1),
        e \in 0..MaxFloatExp}

\* starting capitals that are floating-point numbers (the constructor's
\* argument)
FloatCapitals == {c \in {QInt(1), <<7, 4>>} : fl(c) = c}

\* the arguments of compress_market_data: None, the empty list, price lists
CompressInputs ==
    {NoneSeries} \cup UNION {SeqsOfLen(FloatPrices, n) : n \in 0..MaxCompressLen}

\* arguments of decompress_market_data that compress_market_data did not
\* make: None, records that lack a key, a record without original_length
ForeignRecords ==
    {NoneCompressed,
     [base_price |-> QInt(1)],
     [deltas |-> <<QInt(1)>>],
     [original_length |-> 2],
     [base_price |-> QInt(1), original_length |-> 2],
     [deltas |-> <<QInt(1)>>, original_length |-> 2],
     [base_price |-> QInt(1), deltas |-> <<QInt(1)>>]}

(* ------------------------------- state -------------------------------- *)

VARIABLES
    SHORT_MA_WINDOW,    \* config: the short window
    LONG_MA_WINDOW,     \* config: the long window
    \* BacktestEngine
    initial_capital,    \* self.initial_capital
    trades,             \* self.trades
    portfolio_value,    \* self.portfolio_value
    \* run_backtest's locals
    fetched,            \* what fetch_stock_data returned
    df,                 \* the rows left after dropna
    position,           \* "None" or "LONG"
    entry_price,
    entry_date,
    shares,
    cash,
    i,                  \* the loop index of range(1, len(df))
    signal,             \* the signal of the latest step
    results,            \* the metrics dictionary, once computed
    pc,                 \* where run_backtest is
    \* the caller of run_backtest
    runs,               \* the calls made on this engine so far
    prev_results,       \* what the call before the latest one returned
    \* run_monitoring_loop
    previous_signal,    \* the signal tracked across cycles
    current_signal,     \* the signal of the latest cycle that computed one
    iteration,          \* the cycle counter
    alerts,             \* the calls of send_discord_alert, in order
    live_pc,            \* "running" until the loop is interrupted
    last_cycle,         \* how the latest cycle went: "nodata", "exception",
                        \* "handled" (it reached the signal handling), or
                        \* "none" before the first cycle
    \* a call of detect_ma_crossover: its arguments and its result
    ind_prices,
    ind_short,
    ind_long,
    ind_signal,
    ind_pc,             \* "idle" before the call; after it "called",
                        \* "averaged" or "latest", by the function called
    \* a call of calculate_moving_average: its window and its result
    ma_window,
    ma_result,
    \* a call of get_latest_ma_values: its result
    latest_values,
    \* a call of compress_market_data and of decompress_market_data
    cmp_price_data,     \* the argument of compress_market_data
    compressed_data,    \* its result, the argument of decompress_market_data
    decompressed,       \* the result of decompress_market_data
    cmp_pc              \* "idle", "compressed" or "decompressed"

cfgvars == <<SHORT_MA_WINDOW, LONG_MA_WINDOW>>
engine == <<initial_capital, trades, portfolio_value>>
locals == <<fetched, df, position, entry_price, entry_date, shares, cash, i, signal>>
caller == <<runs, prev_results>>
btvars == <<engine, locals, results, pc, caller>>
livevars == <<previous_signal, current_signal, iteration, alerts, live_pc,
              last_cycle>>
indvars == <<ind_prices, ind_short, ind_long, ind_signal, ind_pc,
             ma_window, ma_result, latest_values>>
cmpvars == <<cmp_price_data, compressed_data, decompressed, cmp_pc>>

(* -------------------------- src/backtest.py --------------------------- *)

(***************************************************************************)
(* run_backtest is modelled as its own text reads.  It names its           *)
(* collaborators as config.SHORT_MA_PERIOD and LONG_MA_PERIOD, a           *)
(* fetch_stock_data(symbol, period, interval) that returns a table with a  *)
(* Close column, and a detect_ma_crossover of four averages, while         *)
(* src/config.py, src/data_fetcher.py and src/indicators.py define         *)
(* SHORT_MA_WINDOW and LONG_MA_WINDOW, fetch_stock_data(symbol,            *)
(* period_days) and detect_ma_crossover(price_data, short_window,          *)
(* long_window).  Here the windows are the configured ones, the fetched    *)
(* table is its Close column, the indicator columns are the rolling means  *)
(* of Close, and the four averages of a step are classified by the         *)
(* comparisons of indicators.py (crossover).  A run starts on a freshly    *)
(* constructed engine, as run_backtest_cli makes one.                      *)
(***************************************************************************)

NoResult == [none |-> TRUE]
ErrorResult == [error |-> "Failed to fetch historical data"]

\* df with the two indicator columns added; a None column is all NaN
with_indicators(prices, short_window, long_window) ==
    LET short_ma == calculate_moving_average(prices, short_window)
        long_ma == calculate_moving_average(prices, long_window)
    IN  [k \in 1..Len(prices) |->
            [name |-> k,
             Close |-> QInt(prices[k]),
             Short_MA |-> IF short_ma = NoneSeries THEN NaN ELSE short_ma[k],
             Long_MA |-> IF long_ma = NoneSeries THEN NaN ELSE long_ma[k]]]

KeepRow(r) == ~isna(r.Short_MA) /\ ~isna(r.Long_MA)

dropna(rows) == SelectSeq(rows, KeepRow)

\* the signal of loop step k: rows k-1 and k of df (0-based), i.e. df[k], df[k+1]
step_signal(rows, k) ==
    crossover(rows[k].Short_MA, rows[k].Long_MA,
              rows[k + 1].Short_MA, rows[k + 1].Long_MA)

\* mutant: the profit has the sign of a short position
closed_trade_short(exit_price, exit_date) ==
    [entry_date |-> entry_date,
     exit_date |-> exit_date,
     entry_price |-> entry_price,
     exit_price |-> exit_price,
     shares |-> shares,
     profit |-> QMul(QSub(entry_price, exit_price), shares),
     profit_pct |-> QMul(QDiv(QSub(entry_price, exit_price), entry_price), Hundred),
     position |-> position]

\* mutant: the entry and exit times are stored in each other's place
closed_trade_swapped(exit_price, exit_date) ==
    [entry_date |-> exit_date,
     exit_date |-> entry_date,
     entry_price |-> entry_price,
     exit_price |-> exit_price,
     shares |-> shares,
     profit |-> QMul(QSub(exit_price, entry_price), shares),
     profit_pct |-> QMul(QDiv(QSub(exit_price, entry_price), entry_price), Hundred),
     position |-> position]

\* the Trade closing the open position at exit_price / exit_date
closed_trade(exit_price, exit_date) ==
    [entry_date |-> entry_date,
     exit_date |-> exit_date,
     entry_price |-> entry_price,
     exit_price |-> exit_price,
     shares |-> shares,
     profit |-> QMul(QSub(exit_price, entry_price), shares),
     profit_pct |-> QMul(QDiv(QSub(exit_price, entry_price), entry_price), Hundred),
     position |-> position]

\* mutant: the equity is the cash, whatever the position
portfolio_val_cash(pos, sh, csh, current_price) == csh

\* what is recorded into the equity curve after a step
portfolio_val(pos, sh, csh, current_price) ==
    IF pos = "LONG" THEN QMul(sh, current_price) ELSE csh

\* mutant: a BUY signal enters whatever the position is
enters_any(sig, pos) == sig = "BUY"

\* the guards of the two trading branches of the loop body
enters(sig, pos) == sig = "BUY" /\ pos = "None"

\* mutant: a SELL is acted on when no position is held
exits_flat(sig, pos) == sig = "SELL" /\ pos = "None"

exits(sig, pos) == sig = "SELL" /\ pos = "LONG"

\* mutant: the cash is multiplied by the price
buy_shares_times(csh, current_price) == QMul(csh, current_price)

\* mutant: the liquidation is priced at the first row
first_row(rows) == rows[1]

\* all the cash goes into shares at the current price
buy_shares(csh, current_price) == QDiv(csh, current_price)

\* mutant: closing a position brings no cash
liquidate_nothing(sh, exit_price) == Zero

\* the cash a position of sh shares is worth at exit_price
liquidate(sh, exit_price) == QMul(sh, exit_price)

\* the row the end-of-series liquidation prices the position at
final_row(rows) == rows[Len(rows)]

RECURSIVE SumProfit_gains(_)
\* mutant: only the gains are summed
SumProfit_gains(ts) ==
    IF ts = <<>> THEN Zero
    ELSE IF QGt(ts[1].profit, Zero)
         THEN QAdd(ts[1].profit, SumProfit_gains(Tail(ts)))
         ELSE SumProfit_gains(Tail(ts))

RECURSIVE SumProfit(_)
SumProfit(ts) == IF ts = <<>> THEN Zero ELSE QAdd(ts[1].profit, SumProfit(Tail(ts)))

RECURSIVE max_from(_, _, _)
\* Python's max from index k on: a later item replaces best when greater
max_from(ts, k, best) ==
    IF k > Len(ts) THEN best
    ELSE max_from(ts, k + 1, IF QGt(ts[k].profit, best) THEN ts[k].profit ELSE best)

RECURSIVE min_from(_, _, _)
\* Python's min from index k on: a later item replaces best when smaller
min_from(ts, k, best) ==
    IF k > Len(ts) THEN best
    ELSE min_from(ts, k + 1, IF QLt(ts[k].profit, best) THEN ts[k].profit ELSE best)

MaxProfit(ts) == max_from(ts, 2, ts[1].profit)
MinProfit(ts) == min_from(ts, 2, ts[1].profit)

\* mutant: a break-even Trade is not counted as losing
Losing_strict(ts) == Cardinality({k \in 1..Len(ts) : QLt(ts[k].profit, Zero)})

Winning(ts) == Cardinality({k \in 1..Len(ts) : QGt(ts[k].profit, Zero)})
Losing(ts) == Cardinality({k \in 1..Len(ts) : QLe(ts[k].profit, Zero)})

RECURSIVE drawdown_from(_, _, _, _)
\* the loop of _calculate_max_drawdown from index k on
drawdown_from(values, k, peak, max_dd) ==
    IF k > Len(values) THEN max_dd
    ELSE LET pk == IF QGt(values[k], peak) THEN values[k] ELSE peak
             drawdown == QMul(QDiv(QSub(pk, values[k]), pk), Hundred)
         IN  drawdown_from(values, k + 1, pk,
                           IF QGt(drawdown, max_dd) THEN drawdown ELSE max_dd)

\* mutant: the fall is measured from the first point of the curve
calculate_max_drawdown_start(values) ==
    IF values = <<>> THEN Zero
    ELSE LET fall(k) == QMul(QDiv(QSub(values[1], values[k]), values[1]), Hundred)
             falls == {fall(k) : k \in 1..Len(values)}
         IN  CHOOSE m \in falls : \A x \in falls : QGe(m, x)

\* mutant: the peak starts at the last point of the curve
calculate_max_drawdown_last(values) ==
    IF values = <<>> THEN Zero
    ELSE drawdown_from(values, 1, values[Len(values)], Zero)

calculate_max_drawdown(values) ==
    IF values = <<>> THEN Zero ELSE drawdown_from(values, 1, values[1], Zero)

calculate_metrics(ts, values, capital, final_cash) ==
    IF ts = <<>>
    THEN [total_trades |-> 0,
          winning_trades |-> 0,
          losing_trades |-> 0,
          win_rate |-> Zero,
          total_return |-> Zero,
          total_return_pct |-> Zero,
          avg_profit_per_trade |-> Zero,
          max_profit |-> Zero,
          max_loss |-> Zero,
          final_capital |-> final_cash]
    ELSE [total_trades |-> Len(ts),
          winning_trades |-> Winning(ts),
          losing_trades |-> Losing(ts),
          win_rate |-> QMul(Q(Winning(ts), Len(ts)), Hundred),
          total_return |-> SumProfit(ts),
          total_return_pct |-> QMul(QDiv(QSub(final_cash, capital), capital), Hundred),
          avg_profit_per_trade |-> QDiv(SumProfit(ts), QInt(Len(ts))),
          max_profit |-> MaxProfit(ts),
          max_loss |-> MinProfit(ts),
          max_drawdown |-> calculate_max_drawdown(values),
          final_capital |-> final_cash]

\* the keys _display_results reads from the dictionary
DisplayedKeys ==
    {"total_trades", "winning_trades", "losing_trades", "win_rate",
     "final_capital", "total_return", "total_return_pct",
     "avg_profit_per_trade", "max_profit", "max_loss", "max_drawdown"}

\* mutant: an empty table is not taken for a failed fetch
unavailable_none_only(data) == data = NonePrices

\* df is None or df.empty
unavailable(data) == data = NonePrices \/ data = <<>>

\* what a fetch can return: None, an empty table, or prices
Fetchable == {NonePrices, <<>>} \cup PriceSeries

\* the same with prices of zero among them
DegenerateSeries == UNION {SeqsOfLen(0..MaxPrice, n) : n \in 1..MaxLen}

\* run_backtest from the fetch's return to the loop: the error return, or
\* indicators, dropna and the locals
begin_run(data) ==
    /\ fetched' = data
    /\ IF unavailable(data)
       THEN /\ results' = ErrorResult
            /\ pc' = "returned"
            /\ UNCHANGED <<df, position, entry_price, entry_date, shares, cash,
                           i, signal>>
       ELSE /\ df' = dropna(with_indicators(data, SHORT_MA_WINDOW, LONG_MA_WINDOW))
            /\ position' = "None"
            /\ entry_price' = Zero
            /\ entry_date' = 0
            /\ shares' = Zero
            /\ cash' = initial_capital
            /\ i' = 1
            /\ signal' = "None"
            /\ pc' = "loop"
            /\ UNCHANGED results

(* run_backtest up to the loop: fetch, indicators, dropna, the locals *)
Start ==
    /\ pc = "start"
    /\ runs' = 1
    /\ \E data \in Fetchable : begin_run(data)
    /\ UNCHANGED <<cfgvars, engine, prev_results, livevars, indvars, cmpvars>>

(* the same when the market data holds prices of zero *)
StartDegenerate ==
    /\ pc = "start"
    /\ runs' = 1
    /\ \E data \in DegenerateSeries : begin_run(data)
    /\ UNCHANGED <<cfgvars, engine, prev_results, livevars, indvars, cmpvars>>

(* run_backtest called again on the same engine once it has returned, the
   fetch delivering the same series *)
Rerun ==
    /\ pc = "returned"
    /\ runs < MaxRuns
    /\ runs' = runs + 1
    /\ prev_results' = results
    /\ begin_run(fetched)
    /\ UNCHANGED <<cfgvars, engine, livevars, indvars, cmpvars>>

(* one iteration of the loop over range(1, len(df)) *)
Step ==
    /\ pc = "loop"
    /\ i < Len(df)
    /\ LET sig == step_signal(df, i)
           current_price == df[i + 1].Close
           current_date == df[i + 1].name
       IN  /\ signal' = sig
           /\ IF enters(sig, position)
              THEN /\ shares' = buy_shares(cash, current_price)
                   /\ entry_price' = current_price
                   /\ entry_date' = current_date
                   /\ position' = "LONG"
                   /\ cash' = Zero
                   /\ UNCHANGED trades
              ELSE IF exits(sig, position)
              THEN /\ cash' = liquidate(shares, current_price)
                   /\ trades' = Append(trades, closed_trade(current_price, current_date))
                   /\ position' = "None"
                   /\ shares' = Zero
                   /\ UNCHANGED <<entry_price, entry_date>>
              ELSE UNCHANGED <<shares, entry_price, entry_date, position, cash, trades>>
           /\ portfolio_value' =
                 Append(portfolio_value, portfolio_val(position', shares', cash', current_price))
    /\ i' = i + 1
    /\ UNCHANGED <<cfgvars, initial_capital, fetched, df, results, pc, caller,
                   livevars, indvars, cmpvars>>

\* mutant: an open position is left open at the end of the series
Finish_open ==
    /\ pc = "loop"
    /\ i >= Len(df)
    /\ results' = calculate_metrics(trades, portfolio_value, initial_capital, cash)
    /\ pc' = "display"
    /\ UNCHANGED <<cfgvars, engine, locals, caller, livevars, indvars, cmpvars>>

(* after the loop: close an open position, then _calculate_metrics *)
Finish ==
    /\ pc = "loop"
    /\ i >= Len(df)
    /\ IF position = "LONG"
       THEN LET final_price == final_row(df).Close
                final_date == final_row(df).name
            IN  /\ cash' = liquidate(shares, final_price)
                /\ trades' = Append(trades, closed_trade(final_price, final_date))
                /\ position' = "None"
       ELSE UNCHANGED <<cash, trades, position>>
    /\ results' = calculate_metrics(trades', portfolio_value, initial_capital, cash')
    /\ pc' = "display"
    /\ UNCHANGED <<cfgvars, initial_capital, portfolio_value, fetched, df,
                   entry_price, entry_date, shares, i, signal, caller,
                   livevars, indvars, cmpvars>>

(* ----------------- src/backtest.py, rounded arithmetic ----------------- *)

(***************************************************************************)
(* The same run with each operation of the accounting rounded as a        *)
(* floating-point operation is (at MANTISSA_BITS bits).  The indicator     *)
(* columns and their comparisons stay exact: the averages of a few small   *)
(* prices differ by far more than a rounding error, so rounding does not   *)
(* change a signal.                                                        *)
(***************************************************************************)

\* shares = cash / current_price
buy_shares_float(csh, current_price) == float_div(csh, current_price)

\* cash = shares * exit_price
liquidate_float(sh, exit_price) == float_mul(sh, exit_price)

\* the Trade closing the open position at exit_price / exit_date
closed_trade_float(exit_price, exit_date) ==
    [entry_date |-> entry_date,
     exit_date |-> exit_date,
     entry_price |-> entry_price,
     exit_price |-> exit_price,
     shares |-> shares,
     profit |-> float_mul(float_sub(exit_price, entry_price), shares),
     profit_pct |->
         float_mul(float_div(float_sub(exit_price, entry_price), entry_price),
                   Hundred),
     position |-> position]

\* what is recorded into the equity curve after a step
portfolio_val_float(pos, sh, csh, current_price) ==
    IF pos = "LONG" THEN float_mul(sh, current_price) ELSE csh

RECURSIVE sum_float(_, _, _)
\* Python's sum from index k on: the items are added to acc in order
sum_float(ts, k, acc) ==
    IF k > Len(ts) THEN acc
    ELSE sum_float(ts, k + 1, float_add(acc, ts[k].profit))

SumProfit_float(ts) == sum_float(ts, 1, Zero)

RECURSIVE drawdown_from_float(_, _, _, _)
\* the loop of _calculate_max_drawdown from index k on
drawdown_from_float(values, k, peak, max_dd) ==
    IF k > Len(values) THEN max_dd
    ELSE LET pk == IF QGt(values[k], peak) THEN values[k] ELSE peak
             drawdown ==
                 float_mul(float_div(float_sub(pk, values[k]), pk), Hundred)
         IN  drawdown_from_float(values, k + 1, pk,
                                 IF QGt(drawdown, max_dd) THEN drawdown ELSE max_dd)

calculate_max_drawdown_float(values) ==
    IF values = <<>> THEN Zero ELSE drawdown_from_float(values, 1, values[1], Zero)

calculate_metrics_float(ts, values, capital, final_cash) ==
    IF ts = <<>>
    THEN [total_trades |-> 0,
          winning_trades |-> 0,
          losing_trades |-> 0,
          win_rate |-> Zero,
          total_return |-> Zero,
          total_return_pct |-> Zero,
          avg_profit_per_trade |-> Zero,
          max_profit |-> Zero,
          max_loss |-> Zero,
          final_capital |-> final_cash]
    ELSE [total_trades |-> Len(ts),
          winning_trades |-> Winning(ts),
          losing_trades |-> Losing(ts),
          win_rate |-> float_mul(float_div(QInt(Winning(ts)), QInt(Len(ts))), Hundred),
          total_return |-> SumProfit_float(ts),
          total_return_pct |->
              float_mul(float_div(float_sub(final_cash, capital), capital), Hundred),
          avg_profit_per_trade |-> float_div(SumProfit_float(ts), QInt(Len(ts))),
          max_profit |-> MaxProfit(ts),
          max_loss |-> MinProfit(ts),
          max_drawdown |-> calculate_max_drawdown_float(values),
          final_capital |-> final_cash]

(* one iteration of the loop over range(1, len(df)) *)
StepFloat ==
    /\ pc = "loop"
    /\ i < Len(df)
    /\ LET sig == step_signal(df, i)
           current_price == df[i + 1].Close
           current_date == df[i + 1].name
       IN  /\ signal' = sig
           /\ IF enters(sig, position)
              THEN /\ shares' = buy_shares_float(cash, current_price)
                   /\ entry_price' = current_price
                   /\ entry_date' = current_date
                   /\ position' = "LONG"
                   /\ cash' = Zero
                   /\ UNCHANGED trades
              ELSE IF exits(sig, position)
              THEN /\ cash' = liquidate_float(shares, current_price)
                   /\ trades' = Append(trades,
                                       closed_trade_float(current_price, current_date))
                   /\ position' = "None"
                   /\ shares' = Zero
                   /\ UNCHANGED <<entry_price, entry_date>>
              ELSE UNCHANGED <<shares, entry_price, entry_date, position, cash, trades>>
           /\ portfolio_value' =
                 Append(portfolio_value,
                        portfolio_val_float(position', shares', cash', current_price))
    /\ i' = i + 1
    /\ UNCHANGED <<cfgvars, initial_capital, fetched, df, results, pc, caller,
                   livevars, indvars, cmpvars>>

(* after the loop: close an open position, then _calculate_metrics *)
FinishFloat ==
    /\ pc = "loop"
    /\ i >= Len(df)
    /\ IF position = "LONG"
       THEN LET final_price == final_row(df).Close
                final_date == final_row(df).name
            IN  /\ cash' = liquidate_float(shares, final_price)
                /\ trades' = Append(trades, closed_trade_float(final_price, final_date))
                /\ position' = "None"
       ELSE UNCHANGED <<cash, trades, position>>
    /\ results' =
          calculate_metrics_float(trades', portfolio_value, initial_capital, cash')
    /\ pc' = "display"
    /\ UNCHANGED <<cfgvars, initial_capital, portfolio_value, fetched, df,
                   entry_price, entry_date, shares, i, signal, caller,
                   livevars, indvars, cmpvars>>

(* _display_results, then return: a key the dictionary lacks raises KeyError *)
Display ==
    /\ pc = "display"
    /\ pc' = IF DisplayedKeys \subseteq DOMAIN results THEN "returned" ELSE "raised"
    /\ UNCHANGED <<cfgvars, engine, locals, results, caller, livevars, indvars, cmpvars>>

(* --------------------------- src/main.py ------------------------------ *)

\* what data_fetcher.fetch_stock_data hands to the loop: None or a series
LiveSeries == UNION {SeqsOfLen(1..MaxPrice, n) : n \in 1..MaxLiveLen}

\* data_fetcher.validate_data
validate_data(data) == data # NonePrices /\ Len(data) > 0

\* mutant: every signal is announced
is_new_signal_always(current, previous) == current # "None"

\* the test that decides whether a cycle's signal is announced
is_new_signal(current, previous) == current # "None" /\ current # previous

\* src/config.py
FETCH_INTERVAL_MINUTES == 5
LOOKBACK_PERIOD_DAYS == 30

\* config.validate_config
validate_config(short_window, long_window) ==
    /\ ~(FETCH_INTERVAL_MINUTES <= 0)
    /\ ~(LOOKBACK_PERIOD_DAYS <= 0)
    /\ ~(short_window <= 0 \/ long_window <= 0)
    /\ ~(short_window >= long_window)

(* main(): initialize_bot validates the configuration, and only then is
   run_monitoring_loop entered *)
InitializeBot ==
    /\ live_pc = "main"
    /\ live_pc' = IF validate_config(SHORT_MA_WINDOW, LONG_MA_WINDOW)
                  THEN "running" ELSE "rejected"
    /\ UNCHANGED <<previous_signal, current_signal, iteration, alerts, last_cycle>>
    /\ UNCHANGED <<cfgvars, btvars, indvars, cmpvars>>

\* mutant: the signal is tracked only once its alert has been delivered
tracked_if_sent(current, previous, alert_sent) ==
    IF is_new_signal(current, previous)
    THEN (IF alert_sent THEN current ELSE previous)
    ELSE IF current = previous THEN previous
    ELSE "None"

\* mutant: a cycle without signal leaves the tracked signal as it was
tracked_sticky(current, previous, alert_sent) ==
    IF is_new_signal(current, previous) THEN current
    ELSE previous

\* previous_signal after the signal handling of a cycle; alert_sent is what
\* send_discord_alert returned, where it was called
tracked(current, previous, alert_sent) ==
    IF is_new_signal(current, previous) THEN current
    ELSE IF current = previous THEN previous
    ELSE "None"

\* mutant: a fetch without valid data ends the loop
CycleNoData_breaks ==
    /\ live_pc = "running"
    /\ iteration < MaxCycles
    /\ iteration' = iteration + 1
    /\ last_cycle' = "nodata"
    /\ live_pc' = "stopped"
    /\ UNCHANGED <<previous_signal, current_signal, alerts>>
    /\ UNCHANGED <<cfgvars, btvars, indvars, cmpvars>>

(* a cycle whose fetch yields no valid data: sleep and continue *)
CycleNoData ==
    /\ live_pc = "running"
    /\ iteration < MaxCycles
    /\ \E price_data \in {NonePrices} :
          ~validate_data(price_data)
    /\ iteration' = iteration + 1
    /\ last_cycle' = "nodata"
    /\ UNCHANGED <<previous_signal, current_signal, alerts, live_pc>>
    /\ UNCHANGED <<cfgvars, btvars, indvars, cmpvars>>

(* a cycle in which an exception other than the interrupt is raised before
   the signal is handled: it is caught, the loop sleeps and goes on *)
CycleException ==
    /\ live_pc = "running"
    /\ iteration < MaxCycles
    /\ iteration' = iteration + 1
    /\ last_cycle' = "exception"
    /\ UNCHANGED <<previous_signal, current_signal, alerts, live_pc>>
    /\ UNCHANGED <<cfgvars, btvars, indvars, cmpvars>>

(* a cycle that fetches valid data, computes the signal and handles it;
   delivered is what send_discord_alert returns *)
Cycle ==
    /\ live_pc = "running"
    /\ iteration < MaxCycles
    /\ iteration' = iteration + 1
    /\ last_cycle' = "handled"
    /\ \E price_data \in LiveSeries, delivered \in BOOLEAN :
          /\ validate_data(price_data)
          /\ LET sig == detect_ma_crossover(price_data, SHORT_MA_WINDOW, LONG_MA_WINDOW)
             IN  /\ current_signal' = sig
                 /\ alerts' = IF is_new_signal(sig, previous_signal)
                              THEN Append(alerts, [signal_type |-> sig,
                                                   delivered |-> delivered])
                              ELSE alerts
                 /\ previous_signal' = tracked(sig, previous_signal, delivered)
    /\ UNCHANGED live_pc
    /\ UNCHANGED <<cfgvars, btvars, indvars, cmpvars>>

(* KeyboardInterrupt: the loop ends *)
Interrupt ==
    /\ live_pc = "running"
    /\ live_pc' = "stopped"
    /\ UNCHANGED <<previous_signal, current_signal, iteration, alerts, last_cycle>>
    /\ UNCHANGED <<cfgvars, btvars, indvars, cmpvars>>

(* ---------------- a call of a function of indicators.py -------------- *)

\* the window arguments of a call
WindowArgs == (1..MaxWindow) \X (1..MaxWindow)

\* the series a call is given: None, the empty one, or prices
CallSeries == {NonePrices, <<>>} \cup PriceSeries

Detect ==
    /\ ind_pc = "idle"
    /\ ind_pc' = "called"
    /\ \E data \in CallSeries, w \in WindowArgs :
          /\ ind_prices' = data
          /\ ind_short' = w[1]
          /\ ind_long' = w[2]
          /\ ind_signal' = detect_ma_crossover(data, w[1], w[2])
    /\ UNCHANGED <<ma_window, ma_result, latest_values>>
    /\ UNCHANGED <<cfgvars, btvars, livevars, cmpvars>>

\* src/test_indicators.py: the windows and the two series of the signal
\* tests, 23 equal prices and two moves in one direction
TEST_SHORT_WINDOW == 5
TEST_LONG_WINDOW == 20
TestBuyPrices ==
    [k \in 1..25 |-> IF k <= 23 THEN 100 ELSE IF k = 24 THEN 105 ELSE 110]
TestSellPrices ==
    [k \in 1..25 |-> IF k <= 23 THEN 120 ELSE IF k = 24 THEN 115 ELSE 110]

\* a test series as it grows point by point
TestSeries ==
    {SubSeq(s, 1, n) : s \in {TestBuyPrices, TestSellPrices}, n \in 1..25}

\* detect_ma_crossover called with the tests' windows on a test series
DetectOnTestSeries ==
    /\ ind_pc = "idle"
    /\ ind_pc' = "called"
    /\ \E data \in TestSeries :
          /\ ind_prices' = data
          /\ ind_short' = TEST_SHORT_WINDOW
          /\ ind_long' = TEST_LONG_WINDOW
          /\ ind_signal' = detect_ma_crossover(data, TEST_SHORT_WINDOW,
                                               TEST_LONG_WINDOW)
    /\ UNCHANGED <<ma_window, ma_result, latest_values>>
    /\ UNCHANGED <<cfgvars, btvars, livevars, cmpvars>>

\* a call of calculate_moving_average(price_data, window)
Average ==
    /\ ind_pc = "idle"
    /\ ind_pc' = "averaged"
    /\ \E data \in CallSeries, w \in 1..MaxWindow :
          /\ ind_prices' = data
          /\ ma_window' = w
          /\ ma_result' = calculate_moving_average(data, w)
    /\ UNCHANGED <<ind_short, ind_long, ind_signal, latest_values>>
    /\ UNCHANGED <<cfgvars, btvars, livevars, cmpvars>>

\* a call of get_latest_ma_values(price_data, short_window, long_window)
Latest ==
    /\ ind_pc = "idle"
    /\ ind_pc' = "latest"
    /\ \E data \in CallSeries, w \in WindowArgs :
          /\ ind_prices' = data
          /\ ind_short' = w[1]
          /\ ind_long' = w[2]
          /\ latest_values' = get_latest_ma_values(data, w[1], w[2])
    /\ UNCHANGED <<ind_signal, ma_window, ma_result>>
    /\ UNCHANGED <<cfgvars, btvars, livevars, cmpvars>>

(* ------------------------- src/compressor.py -------------------------- *)

\* a call of compress_market_data(price_data)
Compress ==
    /\ cmp_pc = "idle"
    /\ cmp_pc' = "compressed"
    /\ \E data \in CompressInputs :
          /\ cmp_price_data' = data
          /\ compressed_data' = compress_market_data(data)
    /\ UNCHANGED decompressed
    /\ UNCHANGED <<cfgvars, btvars, livevars, indvars>>

\* a call of decompress_market_data on what compress_market_data returned
Decompress ==
    /\ cmp_pc = "compressed"
    /\ cmp_pc' = "decompressed"
    /\ decompressed' = decompress_market_data(compressed_data)
    /\ UNCHANGED <<cmp_price_data, compressed_data>>
    /\ UNCHANGED <<cfgvars, btvars, livevars, indvars>>

\* a call of decompress_market_data on a record made elsewhere
DecompressForeign ==
    /\ cmp_pc = "idle"
    /\ cmp_pc' = "decompressed"
    /\ \E data \in ForeignRecords :
          /\ compressed_data' = data
          /\ decompressed' = decompress_market_data(data)
    /\ UNCHANGED cmp_price_data
    /\ UNCHANGED <<cfgvars, btvars, livevars, indvars>>

vars == <<cfgvars, btvars, livevars, indvars, cmpvars>>

\* empty logs, no call made yet, and the loop's and the calls' variables
NoCallYet ==
    /\ trades = <<>>
    /\ portfolio_value = <<>>
    /\ fetched = NonePrices
    /\ df = <<>>
    /\ position = "None"
    /\ entry_price = Zero
    /\ entry_date = 0
    /\ shares = Zero
    /\ cash = Zero
    /\ i = 0
    /\ signal = "None"
    /\ results = NoResult
    /\ pc = "start"
    /\ runs = 0
    /\ prev_results = NoResult
    /\ previous_signal = "None"
    /\ current_signal = "None"
    /\ iteration = 0
    /\ alerts = <<>>
    /\ last_cycle = "none"
    /\ ind_prices = NonePrices
    /\ ind_short = 1
    /\ ind_long = 1
    /\ ind_signal = "None"
    /\ ind_pc = "idle"
    /\ ma_window = 1
    /\ ma_result = NoneSeries
    /\ latest_values = NoValues
    /\ cmp_price_data = NoneSeries
    /\ compressed_data = NoneCompressed
    /\ decompressed = NoneSeries
    /\ cmp_pc = "idle"

\* a fresh engine, no call made yet
Constructed ==
    /\ initial_capital \in {QInt(c) : c \in Capitals}
    /\ NoCallYet

\* a valid configuration; the live loop has been entered
Init ==
    /\ \E w \in Windows : SHORT_MA_WINDOW = w[1] /\ LONG_MA_WINDOW = w[2]
    /\ live_pc = "running"
    /\ Constructed

Next == Start \/ Step \/ Finish \/ Display

Spec == Init /\ [][Next]_vars

\* a backtest over market data that holds prices of zero
NextDegenerate == StartDegenerate \/ Step \/ Finish \/ Display

SpecDegenerate == Init /\ [][NextDegenerate]_vars

\* run_backtest called up to MaxRuns times on one engine
NextRerun == Start \/ Step \/ Finish \/ Display \/ Rerun

SpecRerun == Init /\ [][NextRerun]_vars

\* any window settings, valid or not; main() has not been entered
InitConfig ==
    /\ \E w \in ConfigWindows : SHORT_MA_WINDOW = w[1] /\ LONG_MA_WINDOW = w[2]
    /\ live_pc = "main"
    /\ Constructed
    /\ initial_capital = QInt(DEFAULT_CAPITAL)

\* the process runs main() of main.py
NextMain ==
    InitializeBot \/ CycleNoData \/ CycleException \/ Cycle \/ Interrupt

\* the process is either the monitor (main.py) or a backtest (backtest.py)
NextConfig ==
    \/ pc = "start" /\ NextMain
    \/ live_pc = "main" /\ Next

SpecConfig == InitConfig /\ [][NextConfig]_vars

NextLive == CycleNoData \/ CycleException \/ Cycle \/ Interrupt

\* the live loop does not read the engine: one capital is enough
InitLive == Init /\ initial_capital = QInt(DEFAULT_CAPITAL)

SpecLive == InitLive /\ [][NextLive]_vars

NextInd == Detect \/ DetectOnTestSeries \/ Average \/ Latest

\* a call reads its arguments only: one configuration is enough
InitInd == InitLive /\ SHORT_MA_WINDOW = 1 /\ LONG_MA_WINDOW = 2

SpecInd == InitInd /\ [][NextInd]_vars

\* a backtest run whose accounting is rounded as floating-point
\* operations are; the capital is a floating-point number
NextFloat == Start \/ StepFloat \/ FinishFloat \/ Display

\* a fresh engine whose capital is a floating-point number
InitFloat ==
    /\ \E w \in Windows : SHORT_MA_WINDOW = w[1] /\ LONG_MA_WINDOW = w[2]
    /\ live_pc = "running"
    /\ initial_capital \in FloatCapitals
    /\ NoCallYet

SpecFloat == InitFloat /\ [][NextFloat]_vars

\* calls of the functions of compressor.py
NextCompress == Compress \/ Decompress \/ DecompressForeign

InitCompress == InitInd

SpecCompress == InitCompress /\ [][NextCompress]_vars

(* ------------------------- the backtest's claims ----------------------- *)

\* a transition that is one iteration of the loop, and the row it processes
LoopStep == pc = "loop" /\ i' = i + 1
StepPrice == df[i + 1].Close
StepDate == df[i + 1].name

\* the transition that leaves the loop: liquidation and metrics
FinishStep == pc = "loop" /\ pc' = "display"

\* the trade log grew by exactly one Trade, the earlier ones untouched
OneTradeAppended ==
    /\ Len(trades') = Len(trades) + 1
    /\ SubSeq(trades', 1, Len(trades)) = trades

\* C2: a step with a BUY signal while the position is NONE ends LONG, with
\* shares * price equal to the cash held before, the entry price and time
\* those of the step's row, no cash left and the trade log as it was.
C2_BuyWhenFlatEntersLong ==
    [][(LoopStep /\ signal' = "BUY" /\ position = "None") =>
          /\ position' = "LONG"
          /\ QMul(shares', StepPrice) = cash
          /\ entry_price' = StepPrice
          /\ entry_date' = StepDate
          /\ cash' = Zero
          /\ trades' = trades]_vars

\* a position has just been opened by the latest step
C2_Witness ==
    /\ pc = "loop"
    /\ i >= 2
    /\ signal = "BUY"
    /\ position = "LONG"
    /\ entry_date = df[i].name
    /\ cash = Zero
    /\ QMul(shares, entry_price) = initial_capital

\* C3: a step with a SELL signal while LONG ends FLAT with cash equal to
\* shares * price and no shares, and appends exactly one Trade carrying the
\* recorded entry, the step's price and time as exit,
\* profit = (exit - entry) * shares and
\* profit_pct = (exit - entry) / entry * 100.
C3_SellWhenLongExits ==
    [][(LoopStep /\ signal' = "SELL" /\ position = "LONG") =>
          /\ position' = "None"
          /\ cash' = QMul(shares, StepPrice)
          /\ shares' = Zero
          /\ OneTradeAppended
          /\ LET t == trades'[Len(trades')]
             IN  /\ t.entry_price = entry_price
                 /\ t.entry_date = entry_date
                 /\ t.exit_price = StepPrice
                 /\ t.exit_date = StepDate
                 /\ t.shares = shares
                 /\ t.profit = QMul(QSub(StepPrice, entry_price), shares)
                 /\ QMul(t.profit_pct, entry_price) =
                       QMul(QSub(StepPrice, entry_price), Hundred)]_vars

\* the latest step closed a position that an earlier step had opened
C3_Witness ==
    /\ pc = "loop"
    /\ signal = "SELL"
    /\ position = "None"
    /\ trades # <<>>
    /\ trades[Len(trades)].exit_date = df[i].name
    /\ trades[Len(trades)].entry_date < df[i].name
    /\ trades[Len(trades)].profit # Zero

\* C4: a step with BUY or no signal while LONG, or with SELL or no signal
\* while FLAT, changes none of position, cash, shares, entry price, entry
\* time and trade log; the equity curve grows by one point.
C4_OtherStepsKeepThePosition ==
    [][(/\ LoopStep
        /\ \/ position = "LONG" /\ signal' \in {"BUY", "None"}
           \/ position = "None" /\ signal' \in {"SELL", "None"}) =>
          /\ UNCHANGED <<position, cash, shares, entry_price, entry_date, trades>>
          /\ Len(portfolio_value') = Len(portfolio_value) + 1]_vars

\* a BUY signal arrived while a position opened earlier was still held
C4_Witness ==
    /\ pc = "loop"
    /\ signal = "BUY"
    /\ position = "LONG"
    /\ entry_date < df[i].name
    /\ trades = <<>>

\* the Trades are in time order and do not overlap, an open position
\* included
TradesOrdered ==
    /\ \A k \in 1..Len(trades) : trades[k].entry_date <= trades[k].exit_date
    /\ \A k \in 1..(Len(trades) - 1) :
          trades[k].exit_date <= trades[k + 1].entry_date
    /\ (position = "LONG" /\ trades # <<>>) =>
          trades[Len(trades)].exit_date <= entry_date

\* C5: the position is NONE or one LONG position; a held position is not
\* re-entered (its entry and size stay as they are while it is LONG), so
\* the Trades of the log are in time order and do not overlap.
C5_OnePositionAtATime ==
    /\ [](position \in {"None", "LONG"} /\ TradesOrdered)
    /\ [][(position = "LONG" /\ position' = "LONG") =>
             UNCHANGED <<entry_date, entry_price, shares>>]_vars

\* a second position is held after a first was closed
C5_Witness ==
    /\ pc = "loop"
    /\ position = "LONG"
    /\ Len(trades) = 1
    /\ trades[1].exit_date < entry_date

\* C6: leaving the loop while LONG appends exactly one Trade, exiting at
\* the last row's price with the accounting of a SELL exit, and the final
\* capital is shares * last price.
C6_EndOfSeriesLiquidation ==
    [][(FinishStep /\ position = "LONG") =>
          /\ OneTradeAppended
          /\ position' = "None"
          /\ LET t == trades'[Len(trades')]
                 last_price == df[Len(df)].Close
             IN  /\ t.exit_price = last_price
                 /\ t.exit_date = df[Len(df)].name
                 /\ t.entry_price = entry_price
                 /\ t.entry_date = entry_date
                 /\ t.shares = shares
                 /\ t.profit = QMul(QSub(last_price, entry_price), shares)
                 /\ QMul(t.profit_pct, entry_price) =
                       QMul(QSub(last_price, entry_price), Hundred)
                 /\ cash' = QMul(shares, last_price)
                 /\ results'.final_capital = QMul(shares, last_price)]_vars

\* the series ended several steps after the entry, at another price
C6_Witness ==
    /\ pc = "display"
    /\ signal # "SELL"
    /\ shares # Zero
    /\ trades # <<>>
    /\ trades[Len(trades)].exit_date = df[Len(df)].name
    /\ trades[Len(trades)].entry_date < df[Len(df)].name
    /\ trades[Len(trades)].exit_price # trades[Len(trades)].entry_price
    /\ df[1].Close # df[Len(df)].Close

\* C7: every loop step appends exactly one equity point, shares * price if
\* the position is LONG after the step and the cash otherwise; the
\* liquidation appends none; so the curve holds i - 1 points inside the
\* loop and N - 1 points after it (none for N = 0).
C7_OneEquityPointPerStep ==
    /\ [][LoopStep =>
             portfolio_value' =
                Append(portfolio_value,
                       IF position' = "LONG" THEN QMul(shares', StepPrice)
                       ELSE cash')]_vars
    /\ [][FinishStep => portfolio_value' = portfolio_value]_vars
    /\ [](pc = "loop" => Len(portfolio_value) = i - 1)
    /\ [](pc \in {"display", "returned", "raised"} =>
             Len(portfolio_value) = IF Len(df) = 0 THEN 0 ELSE Len(df) - 1)

\* a run of several steps, with and without trades, that ended LONG
C7_Witness ==
    /\ pc = "display"
    /\ Len(df) >= 4
    /\ Len(portfolio_value) = Len(df) - 1
    /\ Len(trades) = 2
    /\ shares # Zero
    /\ \E k \in 1..Len(portfolio_value) : portfolio_value[k] # initial_capital

\* the metrics of a run without trades, as the claim has them
ZeroMetrics ==
    /\ DisplayedKeys \subseteq DOMAIN results
    /\ results.total_trades = 0
    /\ results.winning_trades = 0
    /\ results.losing_trades = 0
    /\ results.win_rate = Zero
    /\ results.total_return = Zero
    /\ results.total_return_pct = Zero
    /\ results.avg_profit_per_trade = Zero
    /\ results.max_profit = Zero
    /\ results.max_loss = Zero
    /\ results.max_drawdown = Zero
    /\ results.final_capital = initial_capital

\* C9: a run over an available series that recorded no trades does not
\* fail, and its result holds every metric, the maximum drawdown included,
\* at zero, with the final capital equal to the initial capital.
C9_NoTradesZeroMetrics ==
    (pc \in {"display", "returned", "raised"} /\ results # ErrorResult /\ trades = <<>>) =>
        (pc # "raised" /\ ZeroMetrics)

\* C10: in every computed result winning + losing = total and the win rate
\* is in [0, 100], winning being the Trades with profit > 0 and losing
\* those with profit <= 0.
C10_WinLossPartition ==
    ("total_trades" \in DOMAIN results) =>
        /\ results.total_trades = Len(trades)
        /\ results.winning_trades =
              Cardinality({k \in 1..Len(trades) : trades[k].profit[1] > 0})
        /\ results.losing_trades =
              Cardinality({k \in 1..Len(trades) : trades[k].profit[1] <= 0})
        /\ results.winning_trades + results.losing_trades = results.total_trades
        /\ QLe(Zero, results.win_rate)
        /\ QLe(results.win_rate, Hundred)

\* a returned result with a winning, a losing and a break-even Trade
C10_Witness ==
    /\ pc = "returned"
    /\ "total_trades" \in DOMAIN results
    /\ results.winning_trades >= 1
    /\ results.losing_trades >= 1
    /\ \E k \in 1..Len(trades) : trades[k].profit = Zero
    /\ QLt(Zero, results.win_rate)
    /\ QLt(results.win_rate, Hundred)

(* ------------------------ the detector's claim ------------------------ *)

RECURSIVE WindowSum(_, _, _)
\* prices[t - w + 1] + ... + prices[t], the oldest price first
WindowSum(prices, w, t) ==
    IF w = 0 THEN 0 ELSE prices[t - w + 1] + WindowSum(prices, w - 1, t)

\* the short mean of the window ending at t compared with the long one:
\* sum_short / short ? sum_long / long, cleared of the divisions
ShortBelow(t) ==
    WindowSum(ind_prices, ind_short, t) * ind_long
        < WindowSum(ind_prices, ind_long, t) * ind_short
ShortAbove(t) ==
    WindowSum(ind_prices, ind_short, t) * ind_long
        > WindowSum(ind_prices, ind_long, t) * ind_short

\* a call on a series both of whose averages exist at the last two indices
BothDefinedAtLastTwo ==
    /\ ind_pc = "called"
    /\ ind_prices # NonePrices
    /\ Len(ind_prices) >= ind_long
    /\ Len(ind_prices) - 1 >= ind_short
    /\ Len(ind_prices) - 1 >= ind_long

\* C1: on such a series the detector returns BUY iff the short mean is at
\* or below the long mean at t-1 and above it at t, SELL iff it is at or
\* above at t-1 and below at t, and no signal otherwise, the means being
\* those of the trailing windows of the prices and t the last index.
C1_CrossoverMatchesDefinition ==
    BothDefinedAtLastTwo =>
        LET t == Len(ind_prices)
            up == ~ShortAbove(t - 1) /\ ShortAbove(t)
            down == ~ShortBelow(t - 1) /\ ShortBelow(t)
        IN  /\ (ind_signal = "BUY") <=> up
            /\ (ind_signal = "SELL") <=> down
            /\ (ind_signal = "None") <=> (~up /\ ~down)

\* a BUY out of a tie: the two means are equal at t-1
C1_Witness ==
    /\ BothDefinedAtLastTwo
    /\ 2 <= ind_short
    /\ ind_short < ind_long
    /\ ~ShortAbove(Len(ind_prices) - 1)
    /\ ~ShortBelow(Len(ind_prices) - 1)
    /\ ind_signal = "BUY"

(* ------------------------ the live loop's claims ---------------------- *)

\* the transition called send_discord_alert
AlertEmitted == alerts' # alerts

\* the kinds of signal announced, in order
Announced == [k \in 1..Len(alerts) |-> alerts[k].signal_type]

\* C8 as stated: every announcement is a BUY or a SELL, and no two
\* consecutive announcements are of the same kind, whatever cycles lie
\* between them.
C8_NoRepeatedAnnouncement ==
    /\ \A k \in 1..Len(alerts) : Announced[k] \in {"BUY", "SELL"}
    /\ \A k \in 1..(Len(alerts) - 1) : Announced[k] # Announced[k + 1]

\* C8, amended: an alert is emitted in a cycle only when the cycle's signal
\* is BUY or SELL and differs from previous_signal; previous_signal is
\* None or the kind announced last, and it goes back to None only in a
\* cycle that computed no signal; so an announcement repeats the kind of
\* the one before it only after a cycle without signal.
C8_AlertOnlyOnChangeOfTrackedSignal ==
    /\ [](previous_signal = "None" \/
             (alerts # <<>> /\ previous_signal = Announced[Len(alerts)]))
    /\ [][AlertEmitted =>
             /\ alerts' = Append(alerts, alerts'[Len(alerts')])
             /\ Announced'[Len(alerts')] = current_signal'
             /\ current_signal' \in {"BUY", "SELL"}
             /\ current_signal' # previous_signal
             /\ previous_signal' = current_signal'
             /\ (alerts # <<>> /\ Announced[Len(alerts)] = current_signal') =>
                   previous_signal = "None"]_vars
    /\ [][(previous_signal # "None" /\ previous_signal' = "None") =>
             (iteration' = iteration + 1 /\ current_signal' = "None")]_vars
    /\ [][(previous_signal # "None" /\ current_signal' = previous_signal) =>
             ~AlertEmitted]_vars

\* the same kind was announced twice in a row
C8_Witness ==
    /\ Len(alerts) >= 2
    /\ Announced[Len(alerts)] = Announced[Len(alerts) - 1]
    /\ previous_signal = Announced[Len(alerts)]
    /\ current_signal = previous_signal

(* ------------------------- the maximum drawdown ----------------------- *)

\* the curve never falls from one point to the next
NonDecreasing(values) ==
    \A k \in 1..(Len(values) - 1) : QLe(values[k], values[k + 1])

\* C11: the maximum drawdown of the equity curve of a run is at least 0,
\* it is 0 when the curve never falls, and the max_drawdown a result
\* reports is that value.
C11_DrawdownNonNegative ==
    LET md == calculate_max_drawdown(portfolio_value)
    IN  /\ QGe(md, Zero)
        /\ NonDecreasing(portfolio_value) => md = Zero
        /\ "max_drawdown" \in DOMAIN results => results.max_drawdown = md

\* a run whose curve rose and never fell reported a zero drawdown
C11_Witness ==
    /\ pc = "returned"
    /\ "max_drawdown" \in DOMAIN results
    /\ Len(portfolio_value) >= 3
    /\ NonDecreasing(portfolio_value)
    /\ QLt(portfolio_value[1], portfolio_value[Len(portfolio_value)])
    /\ results.max_drawdown = Zero

(* ------------------- the claims of the indicator calls ---------------- *)

\* the averages of the series of Scenario A
ScenarioA ==
    calculate_moving_average(<<100, 102, 104, 106, 108, 110, 112>>, 3)
        = <<NaN, NaN, QInt(102), QInt(104), QInt(106), QInt(108), QInt(110)>>

\* C12: for a window W >= 1 and a series of L >= W prices,
\* calculate_moving_average returns L entries, the first W-1 undefined and
\* every later one the mean of the W prices ending at its index; the
\* series of Scenario A with W = 3 gives 102, 104, 106, 108, 110.
C12_MovingAverageIsWindowMean ==
    /\ ScenarioA
    /\ (ind_pc = "averaged" /\ ind_prices # NonePrices
            /\ Len(ind_prices) >= ma_window) =>
          /\ ma_result # NoneSeries
          /\ Len(ma_result) = Len(ind_prices)
          /\ \A k \in 1..Len(ind_prices) :
                IF k < ma_window
                THEN isna(ma_result[k])
                ELSE /\ ~isna(ma_result[k])
                     /\ ma_result[k][1] * ma_window
                           = WindowSum(ind_prices, ma_window, k) * ma_result[k][2]

\* a window of 3 over 5 prices whose first mean is not a whole number
C12_Witness ==
    /\ ind_pc = "averaged"
    /\ ma_window = 3
    /\ ind_prices # NonePrices
    /\ Len(ind_prices) = 5
    /\ isna(ma_result[2])
    /\ ma_result[3][2] = 3
    /\ ~isna(ma_result[5])

\* the series of a call is None or has fewer than n points
Fewer(n) == ind_prices = NonePrices \/ Len(ind_prices) < n

\* C13: given None or fewer points than the window it needs, each
\* function returns None: calculate_moving_average below its window,
\* detect_ma_crossover and get_latest_ma_values below the long window.
C13_InsufficientDataGivesNone ==
    /\ (ind_pc = "averaged" /\ Fewer(ma_window)) => ma_result = NoneSeries
    /\ (ind_pc = "called" /\ Fewer(ind_long)) => ind_signal = "None"
    /\ (ind_pc = "latest" /\ Fewer(ind_long)) => latest_values = NoValues

\* an average was asked of a series one point short of the window
C13_Witness ==
    /\ ind_pc = "averaged"
    /\ ind_prices # NonePrices
    /\ Len(ind_prices) >= 1
    /\ Len(ind_prices) = ma_window - 1
    /\ ma_result = NoneSeries

\* the average of window w does not exist at index t of a series
UndefinedAt(w, t) == t < 1 \/ t < w

\* C14: the detector returns no signal when the short or the long average
\* is undefined at the last index or at the one before it; a series of
\* exactly long_window points is such a case.
C14_NoSignalOnUndefinedAverage ==
    (ind_pc = "called" /\ ind_prices # NonePrices) =>
        LET t == Len(ind_prices)
        IN  /\ (UndefinedAt(ind_short, t - 1) \/ UndefinedAt(ind_long, t - 1)
                   \/ UndefinedAt(ind_short, t) \/ UndefinedAt(ind_long, t)) =>
                  ind_signal = "None"
            /\ t = ind_long => ind_signal = "None"

\* exactly long_window points whose short mean ends above the long one
C14_Witness ==
    /\ ind_pc = "called"
    /\ ind_prices # NonePrices
    /\ ind_short < ind_long
    /\ Len(ind_prices) = ind_long
    /\ ShortAbove(Len(ind_prices))
    /\ ind_signal = "None"

\* the values an average of up to MaxWindow prices can take
Means == {Q(n, d) : n \in 1..(MaxWindow * MaxPrice), d \in 1..MaxWindow}

\* no four averages pass the test of the BUY branch and that of the SELL one
NeverBoth ==
    \A sp \in Means, lp \in Means, sc \in Means, lc \in Means :
        ~(buy_condition(sp, lp, sc, lc) /\ sell_condition(sp, lp, sc, lc))

\* the mean of the w prices ending at index t of the call's series
MeanAt(w, t) == Q(WindowSum(ind_prices, w, t), w)

\* C15: no four averages satisfy the BUY test and the SELL test together,
\* and the detector's result is the one it would give if it tested SELL
\* before BUY.
C15_BuyAndSellExclusive ==
    /\ NeverBoth
    /\ (ind_pc = "called" /\ BothDefinedAtLastTwo) =>
          LET t == Len(ind_prices)
              sp == MeanAt(ind_short, t - 1)
              lp == MeanAt(ind_long, t - 1)
              sc == MeanAt(ind_short, t)
              lc == MeanAt(ind_long, t)
          IN  /\ ~(buy_condition(sp, lp, sc, lc) /\ sell_condition(sp, lp, sc, lc))
              /\ ind_signal = IF sell_condition(sp, lp, sc, lc) THEN "SELL"
                              ELSE IF buy_condition(sp, lp, sc, lc) THEN "BUY"
                              ELSE "None"

\* a SELL out of a tie: the first halves of both tests hold
C15_Witness ==
    /\ ind_pc = "called"
    /\ BothDefinedAtLastTwo
    /\ ind_short < ind_long
    /\ ~ShortAbove(Len(ind_prices) - 1)
    /\ ~ShortBelow(Len(ind_prices) - 1)
    /\ ind_signal = "SELL"

(* ------------------------- a flat price series ------------------------ *)

\* n prices, all equal to c
FlatSeries(c, n) == [k \in 1..n |-> c]

\* the detector finds no signal on a flat series of any length: every
\* prefix of a flat series is one of these
FlatDetectorSilent ==
    \A c \in 1..MaxPrice, n \in 0..MaxLen, w \in Windows :
        detect_ma_crossover(FlatSeries(c, n), w[1], w[2]) = "None"

\* the fetch returned nothing: None or an empty table
NoSeries == fetched = NonePrices \/ Len(fetched) = 0

\* the run's fetch returned a series of equal prices
FetchedFlat ==
    /\ ~NoSeries
    /\ \A k \in 1..Len(fetched) : fetched[k] = fetched[1]

\* C16: on a series of equal prices the detector gives no signal, whatever
\* the length and the windows, and a backtest over such a series sees no
\* signal at any step, opens no position and records no trade.
C16_FlatSeriesNoTrade ==
    /\ FlatDetectorSilent
    /\ FetchedFlat =>
          /\ signal = "None"
          /\ position = "None"
          /\ shares = Zero
          /\ trades = <<>>
          /\ \A k \in 1..Len(portfolio_value) : portfolio_value[k] = initial_capital

\* the loop went over a flat series of several rows to its end
C16_Witness ==
    /\ FetchedFlat
    /\ pc = "display"
    /\ Len(df) >= 3
    /\ i = Len(df)
    /\ Len(portfolio_value) = Len(df) - 1
    /\ trades = <<>>

(* --------------------------- a failed fetch --------------------------- *)

InvalidConfiguration ==
    \/ SHORT_MA_WINDOW <= 0
    \/ LONG_MA_WINDOW <= 0
    \/ SHORT_MA_WINDOW >= LONG_MA_WINDOW

\* the live loop has not been entered: no cycle and no alert
LiveLoopNotEntered ==
    /\ live_pc \in {"main", "rejected"}
    /\ iteration = 0
    /\ alerts = <<>>

\* run_backtest has not fetched nor simulated anything
BacktestNotBegun ==
    /\ pc = "start"
    /\ runs = 0
    /\ fetched = NonePrices
    /\ portfolio_value = <<>>

\* C18: under an invalid configuration neither the live loop nor a
\* backtest run fetches data or takes a simulation step.
C18_InvalidConfigurationRejected ==
    InvalidConfiguration => (LiveLoopNotEntered /\ BacktestNotBegun)

(* ------------------------ an entry price of zero ---------------------- *)

\* the trades entered at a price of zero
ZeroEntryTrades == {k \in 1..Len(trades) : trades[k].entry_price = Zero}

\* C19: a Trade entered at a price of zero reports its percentage profit
\* as not-a-number (the record always holds the field, so it is never
\* skipped), whether a SELL or the end of the series closed it, and the run
\* of such a Trade returns its result.
C19_ZeroEntryPriceGuarded ==
    /\ \A k \in ZeroEntryTrades : trades[k].profit_pct = NaN
    /\ ZeroEntryTrades # {} => pc # "raised"

(* ---------------------- a second run on one engine -------------------- *)

\* C20: a call of run_backtest after the first, on the same engine and
\* over the same series, returns what the call before it returned, and the
\* equity curve then holds the points of the latest run only, one for each
\* of its loop steps.
C20_SecondRunSameResult ==
    (runs >= 2 /\ pc = "returned") =>
        /\ results = prev_results
        /\ ~NoSeries => Len(portfolio_value) = Len(df) - 1

(* -------------------- the Trade of the final liquidation -------------- *)

\* the Trade a SELL at the final row would write for the open position
SellTradeAtFinalRow ==
    [entry_date |-> entry_date,
     exit_date |-> df[Len(df)].name,
     entry_price |-> entry_price,
     exit_price |-> df[Len(df)].Close,
     shares |-> shares,
     profit |-> QMul(QSub(df[Len(df)].Close, entry_price), shares),
     profit_pct |-> QMul(QDiv(QSub(df[Len(df)].Close, entry_price), entry_price),
                         Hundred),
     position |-> "LONG"]

\* C21: the Trade the end-of-series liquidation writes differs, by a tag,
\* from the Trade a SELL signal at the same row would have written.
C21_LiquidationTradeIsTagged ==
    [][(FinishStep /\ Len(trades') = Len(trades) + 1) =>
          trades'[Len(trades')] # SellTradeAtFinalRow]_vars

(* -------------------- more claims of the live loop -------------------- *)

\* a transition that is a cycle which reached the signal handling
HandledCycle == iteration' = iteration + 1 /\ last_cycle' = "handled"

\* a transition that is a cycle cut short by missing data or an exception
SkippedCycle == iteration' = iteration + 1 /\ last_cycle' \in {"nodata", "exception"}

\* C22: what a cycle leaves in previous_signal, and whether it attempts an
\* alert, is determined by previous_signal and the cycle's signal alone,
\* not by what the delivery returned; after a failed delivery the same
\* signal is not announced again.
C22_DeliveryDoesNotAffectCoreState ==
    [][HandledCycle =>
          /\ previous_signal' = current_signal'
          /\ AlertEmitted <=>
                (current_signal' \in {"BUY", "SELL"}
                    /\ current_signal' # previous_signal)
          /\ (alerts # <<>> /\ ~alerts[Len(alerts)].delivered
                 /\ current_signal' = previous_signal) => ~AlertEmitted]_vars

\* an alert whose delivery failed was followed by the alert of the next
\* change of signal
C22_Witness ==
    /\ Len(alerts) = 2
    /\ ~alerts[1].delivered
    /\ alerts[1].signal_type = "BUY"
    /\ alerts[2].signal_type = "SELL"
    /\ previous_signal = "SELL"

\* C27: a cycle without valid data, or with an exception other than the
\* interrupt, sends no alert, leaves previous_signal as it was and leaves
\* the loop running; the loop stops only by the interrupt, outside a cycle.
C27_SkippedCycleKeepsLoopRunning ==
    /\ [][SkippedCycle =>
             /\ alerts' = alerts
             /\ previous_signal' = previous_signal
             /\ live_pc' = "running"]_vars
    /\ [][(live_pc = "running" /\ live_pc' # "running") =>
             (live_pc' = "stopped" /\ iteration' = iteration)]_vars

\* a cycle was skipped while a BUY was tracked, and the loop runs on
C27_Witness ==
    /\ last_cycle \in {"nodata", "exception"}
    /\ iteration >= 2
    /\ previous_signal = "BUY"
    /\ Len(alerts) = 1
    /\ live_pc = "running"

\* C30: previous_signal is the signal computed by the latest cycle that
\* reached the signal handling (None before any did), and such a cycle
\* attempts an alert exactly when its signal is BUY or SELL and is not the
\* signal the latest such cycle before it computed.
C30_TrackedSignalIsLatestSignal ==
    /\ [](previous_signal = current_signal)
    /\ [][HandledCycle =>
             (AlertEmitted <=>
                 (current_signal' \in {"BUY", "SELL"}
                     /\ current_signal' # current_signal))]_vars

\* a cycle without signal came after a BUY and reset the tracked signal
C30_Witness ==
    /\ Len(alerts) = 1
    /\ alerts[1].signal_type = "BUY"
    /\ last_cycle = "handled"
    /\ current_signal = "None"
    /\ previous_signal = "None"

(* ------------------- one BUY followed by one SELL --------------------- *)

\* the short mean of the fetched prices is above / below the long one at t
FetchedAbove(t) ==
    WindowSum(fetched, SHORT_MA_WINDOW, t) * LONG_MA_WINDOW
        > WindowSum(fetched, LONG_MA_WINDOW, t) * SHORT_MA_WINDOW
FetchedBelow(t) ==
    WindowSum(fetched, SHORT_MA_WINDOW, t) * LONG_MA_WINDOW
        < WindowSum(fetched, LONG_MA_WINDOW, t) * SHORT_MA_WINDOW

\* the indices of the fetched series the loop steps over, and those at
\* which the averages cross upwards / downwards
SteppedIndices == (LONG_MA_WINDOW + 1)..Len(fetched)
BuyIndices == {t \in SteppedIndices : ~FetchedAbove(t - 1) /\ FetchedAbove(t)}
SellIndices == {t \in SteppedIndices : ~FetchedBelow(t - 1) /\ FetchedBelow(t)}

\* the series gives exactly one BUY and, later, exactly one SELL
OneBuyThenOneSell ==
    /\ ~NoSeries
    /\ Cardinality(BuyIndices) = 1
    /\ Cardinality(SellIndices) = 1
    /\ \A b \in BuyIndices, s \in SellIndices : b < s

\* C23: over such a series the run records exactly one Trade, entered at
\* the price of the BUY step and left at the price of the SELL step, with
\* shares * entry_price equal to the initial capital; it ends with no
\* position, and the end of the series adds no Trade.
C23_OneBuyOneSellOneTrade ==
    /\ []((OneBuyThenOneSell /\ pc \in {"display", "returned"}) =>
             /\ Len(trades) = 1
             /\ \A b \in BuyIndices, s \in SellIndices :
                   /\ trades[1].entry_price = QInt(fetched[b])
                   /\ trades[1].entry_date = b
                   /\ trades[1].exit_price = QInt(fetched[s])
                   /\ trades[1].exit_date = s
             /\ QMul(trades[1].shares, trades[1].entry_price) = initial_capital
             /\ position = "None"
             /\ pc = "returned" => results.total_trades = 1)
    /\ [][(OneBuyThenOneSell /\ FinishStep) =>
             (position = "None" /\ trades' = trades)]_vars

\* such a run returned, its SELL before the last row and with a loss
C23_Witness ==
    /\ OneBuyThenOneSell
    /\ pc = "returned"
    /\ Len(trades) = 1
    /\ trades[1].exit_date < Len(fetched)
    /\ QLt(trades[1].profit, Zero)

(* --------------------------- the money metrics ------------------------ *)

RECURSIVE ProfitOfFirst(_)
\* the profits of the first k Trades of the log, added up in order
ProfitOfFirst(k) ==
    IF k = 0 THEN Zero ELSE QAdd(ProfitOfFirst(k - 1), trades[k].profit)

\* C24: when a run has recorded a Trade, its result's total_return is the
\* sum of the Trades' profits, avg_profit_per_trade times the number of
\* Trades is total_return, max_profit and max_loss are the largest and
\* the smallest profit of a Trade, and total_return_pct is
\* (final cash - initial capital) / initial capital * 100.
C24_MoneyMetrics ==
    (pc \in {"display", "returned"} /\ trades # <<>>) =>
        /\ results.total_trades = Len(trades)
        /\ results.total_return = ProfitOfFirst(Len(trades))
        /\ QMul(results.avg_profit_per_trade, QInt(Len(trades)))
              = results.total_return
        /\ \A k \in 1..Len(trades) :
              /\ QLe(trades[k].profit, results.max_profit)
              /\ QGe(trades[k].profit, results.max_loss)
        /\ \E k \in 1..Len(trades) : trades[k].profit = results.max_profit
        /\ \E k \in 1..Len(trades) : trades[k].profit = results.max_loss
        /\ QMul(results.total_return_pct, initial_capital)
              = QMul(QSub(cash, initial_capital), Hundred)

\* a run of two Trades, one with a gain and one with a loss
C24_Witness ==
    /\ pc = "returned"
    /\ Len(trades) = 2
    /\ QGt(results.max_profit, Zero)
    /\ QLt(results.max_loss, Zero)
    /\ results.total_return # Zero

(* -------------------- the series of the signal tests ------------------ *)

\* the call was made with the windows of the tests
TestWindows ==
    /\ ind_pc = "called"
    /\ ind_short = TEST_SHORT_WINDOW
    /\ ind_long = TEST_LONG_WINDOW

PeakAt(v, k) ==
    CHOOSE x \in {v[j] : j \in 1..k} : \A j \in 1..k : QGe(x, v[j])

\* how far, in per cent of that peak, point k lies below it
DrawdownAt(v, k) ==
    QMul(QDiv(QSub(PeakAt(v, k), v[k]), PeakAt(v, k)), Hundred)

\* md is the largest drawdown of a point of v, or 0 when v is empty
IsMaxDrawdown(v, md) ==
    IF v = <<>> THEN md = Zero
    ELSE /\ \A k \in 1..Len(v) : QGe(md, DrawdownAt(v, k))
         /\ \E k \in 1..Len(v) : md = DrawdownAt(v, k)

\* every curve of up to MaxLen positive whole values, the empty one included
Curves == {[k \in 1..Len(s) |-> QInt(s[k])] : s \in {<<>>} \cup PriceSeries}

\* the function's value on each of these curves is its largest drawdown
DrawdownOfEveryCurve ==
    \A v \in Curves : IsMaxDrawdown(v, calculate_max_drawdown(v))

\* C26: _calculate_max_drawdown returns the largest, over the points of
\* the curve, of (peak - value) / peak * 100 with the peak the largest
\* value up to the point, and 0 for the empty curve: for every curve in
\* Curves, for the equity curve of the run, and for the value reported.
C26_MaxDrawdownIsLargestFallFromPeak ==
    /\ DrawdownOfEveryCurve
    /\ IsMaxDrawdown(portfolio_value, calculate_max_drawdown(portfolio_value))
    /\ "max_drawdown" \in DOMAIN results =>
          IsMaxDrawdown(portfolio_value, results.max_drawdown)

\* a run whose equity fell and then rose above where it started
C26_Witness ==
    /\ pc = "returned"
    /\ "max_drawdown" \in DOMAIN results
    /\ QGt(results.max_drawdown, Zero)
    /\ Len(portfolio_value) >= 3
    /\ QGt(portfolio_value[Len(portfolio_value)], portfolio_value[1])

(* ------------------- every position opened is closed ------------------ *)

\* the positions open now: one or none
OpenCount == IF position = "LONG" THEN 1 ELSE 0

\* the transition opens a position
Entry == position = "None" /\ position' = "LONG"

\* C28: once the loop over an available series is over, no position is
\* held; and the Trades of the log plus the open position grow by one at
\* each entry and at no other transition, so that the log then holds one
\* Trade for each entry of the run.
C28_EveryEntryIsClosed ==
    /\ []((pc \in {"display", "returned", "raised"} /\ ~NoSeries) =>
             position = "None")
    /\ [][Len(trades') + OpenCount'
             = Len(trades) + OpenCount + (IF Entry THEN 1 ELSE 0)]_vars

\* two entries, the first closed by a SELL and the second by the end of
\* the series
C28_Witness ==
    /\ pc = "returned"
    /\ position = "None"
    /\ Len(trades) = 2
    /\ signal # "SELL"
    /\ trades[2].exit_date = Len(fetched)

(* -------------------------------- C29 --------------------------------- *)

\* compress_market_data was called on a non-empty price list
CompressedList ==
    /\ cmp_pc \in {"compressed", "decompressed"}
    /\ cmp_price_data # NoneSeries
    /\ Len(cmp_price_data) > 0

\* the compressed form of a non-empty list: its first price, one delta
\* for each later price, and the length of the list
CompressedForm ==
    CompressedList =>
        /\ compressed_data.base_price = cmp_price_data[1]
        /\ Len(compressed_data.deltas) = Len(cmp_price_data) - 1
        /\ compressed_data.original_length = Len(cmp_price_data)

\* None comes back from compress_market_data for None or an empty list,
\* and from decompress_market_data for None or a record that lacks
\* base_price or deltas
NoneCases ==
    /\ (cmp_pc = "compressed"
            /\ (cmp_price_data = NoneSeries \/ Len(cmp_price_data) = 0))
        => compressed_data = NoneCompressed
    /\ (cmp_pc = "decompressed"
            /\ (\/ compressed_data = NoneCompressed
                \/ "base_price" \notin DOMAIN compressed_data
                \/ "deltas" \notin DOMAIN compressed_data))
        => decompressed = NoneSeries

\* decompressing what was compressed gives the price list back
RoundTrip ==
    (cmp_pc = "decompressed" /\ CompressedList)
        => decompressed = cmp_price_data

\* C29: delta compression round-trips: for every non-empty price list p,
\* decompress_market_data(compress_market_data(p)) equals p, the compressed
\* form holding base_price = p[0], exactly len(p) - 1 deltas and
\* original_length = len(p); compress_market_data of an empty or None
\* input, and decompress_market_data of None or of a record lacking
\* base_price or deltas, return None.
C29_CompressionRoundTrips == CompressedForm /\ NoneCases /\ RoundTrip

\* a price list whose round trip gives other prices back
C29_LossyRoundTrip ==
    /\ cmp_pc = "decompressed"
    /\ CompressedList
    /\ Len(decompressed) = Len(cmp_price_data)
    /\ decompressed # cmp_price_data

(* -------------------------------- C32 --------------------------------- *)

\* the run is in its loop: the locals are set, or a step has been taken
InRun == pc = "loop"

\* every price of the fetched series and the capital are positive
PositiveInputs ==
    /\ \A k \in 1..Len(fetched) : fetched[k] > 0
    /\ QGt(initial_capital, Zero)

\* all the money is in the shares
AllInShares == cash = Zero /\ QGt(shares, Zero)

\* all the money is in the cash
AllInCash == shares = Zero /\ QGt(cash, Zero)

\* C32: with positive prices and positive initial capital, after every
\* backtest step the position is LONG exactly when cash is 0 and shares
\* are positive, and None exactly when shares are 0 and cash is positive;
\* every value recorded into the equity curve is strictly positive.
C32_PositionMatchesHoldings ==
    (InRun /\ PositiveInputs) =>
        /\ position = "LONG" <=> AllInShares
        /\ position = "None" <=> AllInCash
        /\ \A k \in 1..Len(portfolio_value) : QGt(portfolio_value[k], Zero)

\* a position was closed and a new one is open, the curve recording both
C32_Witness ==
    /\ pc = "loop"
    /\ PositiveInputs
    /\ position = "LONG"
    /\ Len(trades) >= 1
    /\ Len(portfolio_value) >= 3

(* -------------------------------- C31 --------------------------------- *)

RECURSIVE ProfitSum(_)
\* the sum of profit over the first k Trades of the log
ProfitSum(k) ==
    IF k = 0 THEN Zero ELSE QAdd(ProfitSum(k - 1), trades[k].profit)

\* the run computed its metrics
Measured == pc \in {"display", "returned", "raised"} /\ ~NoSeries

\* inside the loop the cash and the cost of the shares held add up to the
\* initial capital and the profit of the Trades recorded so far
CapitalConservedInLoop ==
    pc = "loop" =>
        QAdd(cash, QMul(shares, entry_price))
            = QAdd(initial_capital, ProfitSum(Len(trades)))

\* at the end the gain of capital is the total return, and the percentage
\* is the total return over the initial capital
CapitalConservedAtEnd ==
    Measured =>
        /\ QSub(results.final_capital, initial_capital) = results.total_return
        /\ results.total_return_pct
              = QMul(QDiv(results.total_return, initial_capital), Hundred)

\* C31: capital is conserved by the backtest accounting: after every step
\* cash + shares * entry_price equals initial_capital plus the sum of
\* profit over the Trades recorded so far, so at the end final_capital -
\* initial_capital equals total_return and total_return_pct equals
\* total_return / initial_capital * 100.
C31_CapitalIsConserved == CapitalConservedInLoop /\ CapitalConservedAtEnd

(* -------------------------------- C33 --------------------------------- *)

\* Trade k was entered and closed at the same row
ZeroDuration(k) == trades[k].exit_date = trades[k].entry_date

\* no Trade is closed before it was entered
ExitNotBeforeEntry ==
    \A k \in 1..Len(trades) : trades[k].exit_date >= trades[k].entry_date

\* a Trade entered and closed at the same row is the closing, after the
\* loop, of a position that a BUY of the final step opened: it is the last
\* Trade, its prices are equal and its profit is 0
ZeroDurationOnlyAtFinalBuy ==
    \A k \in 1..Len(trades) :
        ZeroDuration(k) =>
            /\ pc # "loop"
            /\ k = Len(trades)
            /\ signal = "BUY"
            /\ trades[k].entry_date = df[Len(df)].name
            /\ trades[k].exit_price = trades[k].entry_price
            /\ trades[k].profit = Zero

\* the run's only Trade is of that kind
OnlyZeroDurationTrade == Measured /\ Len(trades) = 1 /\ ZeroDuration(1)

\* such a run counts one Trade, a losing one, and ends with the capital
\* it began with
ZeroDurationRunMetrics ==
    OnlyZeroDurationTrade =>
        /\ results.total_trades = 1
        /\ results.losing_trades = 1
        /\ results.win_rate = Zero
        /\ results.final_capital = initial_capital

\* C33: every Trade has exit_time >= entry_time, with equality only for a
\* position opened by a BUY on the final step and force-closed at the same
\* price; such a trade has profit 0 and is counted as a losing trade, so a
\* run whose only trade is of this kind reports total_trades = 1,
\* losing_trades = 1, win_rate = 0 and final_capital equal to the initial
\* capital.
C33_ZeroDurationTrade ==
    ExitNotBeforeEntry /\ ZeroDurationOnlyAtFinalBuy /\ ZeroDurationRunMetrics

====
